---- MODULE Spec2Model ----
(***************************************************************************)
(* A model of libunftp's per-session control channel (the command          *)
(* handlers under src/server/controlchan/commands, the control loop that   *)
(* invokes them, the tasks they spawn, the data task at the other end of   *)
(* data_cmd_tx / data_abort_tx) and of the PROXY protocol listener of      *)
(* src/server/ftpserver.rs.                                                *)
(*                                                                         *)
(* Spec      : one session, driven by a client that may pipeline commands. *)
(* FairSpec  : Spec with the fairness the tokio scheduler gives.           *)
(* ProxySpec : the PROXY-mode listener loop and its switchboard.           *)
(***************************************************************************)
EXTENDS Integers, Sequences, FiniteSets, TLC

(***************************************************************************)
(* Bounds of the model.                                                    *)
(***************************************************************************)
\* commands the client sends in one session
MaxCmds == 3

(***************************************************************************)
(* ReplyCode: the variants the handlers use, with their RFC 959 / RFC 2228 *)
(* numbers.                                                                *)
(***************************************************************************)
NoReply == 0
FileStatusOkay == 150
CommandOkay == 200
SystemStatus == 211
FileStatus == 213
ClosingDataConnection == 226
EnteringPassiveMode == 227
FileActionOkay == 250
FileActionPending == 350
CantOpenDataConnection == 425
ConnectionClosed == 426
TransientFileError == 450
BadCommandSequence == 503
CommandNotImplementedForParameter == 504
Resp533 == 533
FileError == 550
LocalError == 451

\* Option::None of the session's optional fields
None == <<>>

(***************************************************************************)
(* Paths.  A path is a sequence of components; it is absolute when its     *)
(* first component is "/".  PathBuf::join replaces the base by an absolute *)
(* argument and appends a relative one.                                    *)
(***************************************************************************)
IsAbsolute(p) == p # <<>> /\ p[1] = "/"

Join(base, p) == IF IsAbsolute(p) THEN p ELSE base \o p

\* the command arguments the client uses
PathArgs == {<<"a.txt">>, <<"/", "b.txt">>}

\* Uuid::new_v4().to_string()
Uuids == {"3f2a"}

\* the working directory of the session
Cwd == <<"/", "home">>

VARIABLES
    session,        \* the Session record behind the async mutex
    pc,             \* control loop: "select" or "write" (a reply is to be written)
    reply,          \* the reply the loop is about to write
    ncmd,           \* commands handled so far
    tasks,          \* tokio::spawn'ed tasks that have not run yet
    bus,            \* the internal event bus (control_msg_rx of the loop)
    dtasks,         \* data tasks, one per arming, keyed by the arming's number
    written,        \* replies written to the control socket, in order
    renameCalls,    \* storage.rename invocations, in order
    downgrades,     \* commands whose PlaintextControlChannel the loop has consumed
    config,         \* the CommandContext values fixed per server: tls_configured, storage_features
    log             \* per command handled: its name and argument, the session it found,
                    \* and what its handler did

svars == <<session, pc, reply, ncmd, tasks, bus, dtasks, written, renameCalls,
           downgrades, config, log>>

VARIABLES
    phase,                  \* of the Server: "build", "listen", or "panicked" (the listener task died)
    passive_ports,          \* Server.passive_ports, a Range<u16> <<start, end>>
    proxy_protocol_mode,    \* ProxyMode: None (Off) or <<external_control_port>> (On)
    switchboard,            \* Server.proxy_protocol_switchboard: None or <<switchboard>>
    psessions,              \* the sessions spawn_loop has created in PROXY mode
    proxyloop,              \* proxyloop_msg_rx: the AssignDataPortCommand messages under way
    connlog                 \* per accepted TCP connection: what the listener did with it

pvars == <<phase, passive_ports, proxy_protocol_mode, switchboard, psessions, proxyloop,
           connlog>>

vars == <<svars, pvars>>

(***************************************************************************)
(* Replies and handler results.                                            *)
(***************************************************************************)
Reply(code, text) == [code |-> code, text |-> <<text>>]

\* Reply::new_multiline
ReplyMultiline(code, lines) == [code |-> code, text |-> lines]

ReplyNone == [code |-> NoReply, text |-> <<>>]

\* What a handler does: the session it leaves, the tasks it spawns, the
\* reply it returns, the storage calls it awaits, the data task it sets up.
Result(s, spawn, r) ==
    [session |-> s, spawn |-> spawn, reply |-> r, calls |-> <<>>, arm |-> FALSE]

\* InternalMsg: the messages of the event bus, with the command that caused
\* them
CommandChannelReply(code, text, n, cmd) ==
    [type |-> "CommandChannelReply", code |-> code, text |-> text, n |-> n, cmd |-> cmd]

StorageError(kind, n, cmd) == [type |-> "StorageError", kind |-> kind, n |-> n, cmd |-> cmd]

(***************************************************************************)
(* Abor::handle                                                            *)
(***************************************************************************)
Abor_handle(s, n) ==
    IF s.data_abort_tx # None
    THEN Result([s EXCEPT !.data_abort_tx = None],
                {[kind |-> "abort_send", n |-> n, ch |-> s.data_abort_tx[1]]},
                Reply(ClosingDataConnection, "Closed data channel"))
    ELSE Result(s, {}, Reply(ClosingDataConnection, "Data channel already closed"))

(***************************************************************************)
(* Ccc::handle                                                             *)
(***************************************************************************)
\* Ccc::handle without the spawned send
Ccc_handle_noPost(s, n) ==
    IF s.cmd_tls
    THEN Result(s, {}, Reply(CommandOkay, "control channel in plaintext now"))
    ELSE Result(s, {}, Reply(Resp533, "control channel already in plaintext mode"))

\* Ccc::handle sending its acknowledgement over the bus, as Size::handle
\* sends its reply
Ccc_handle_replyViaBus(s, n) ==
    IF s.cmd_tls
    THEN Result(s, {[kind |-> "ccc_send", n |-> n],
                    [kind |-> "post", n |-> n,
                     msg |-> CommandChannelReply(CommandOkay,
                                <<"control channel in plaintext now">>, n, "CCC")]},
                ReplyNone)
    ELSE Result(s, {}, Reply(Resp533, "control channel already in plaintext mode"))

Ccc_handle(s, n) ==
    IF s.cmd_tls
    THEN Result(s, {[kind |-> "ccc_send", n |-> n]},
                Reply(CommandOkay, "control channel in plaintext now"))
    ELSE Result(s, {}, Reply(Resp533, "control channel already in plaintext mode"))

(***************************************************************************)
(* Rnto::handle.  ok is the outcome of the awaited storage.rename.         *)
(***************************************************************************)
\* the staged path put back when the rename fails
Rnto_handle_keepsOnFailure(s, n, path, ok) ==
    IF s.rename_from # None
    THEN [Result(IF ok THEN [s EXCEPT !.rename_from = None] ELSE s, {},
                 IF ok THEN Reply(FileActionOkay, "Renamed")
                       ELSE Reply(FileError, "Storage error while renaming"))
            EXCEPT !.calls = <<[from |-> s.rename_from[1], to |-> Join(s.cwd, path)]>>]
    ELSE Result(s, {}, Reply(TransientFileError,
                             "Please tell me what file you want to rename first"))

Rnto_handle(s, n, path, ok) ==
    IF s.rename_from # None
    THEN [Result([s EXCEPT !.rename_from = None], {},
                 IF ok THEN Reply(FileActionOkay, "Renamed")
                       ELSE Reply(FileError, "Storage error while renaming"))
            EXCEPT !.calls = <<[from |-> s.rename_from[1], to |-> Join(s.cwd, path)]>>]
    ELSE Result(s, {}, Reply(TransientFileError,
                             "Please tell me what file you want to rename first"))

(***************************************************************************)
(* Pbsz::handle                                                            *)
(***************************************************************************)
Pbsz_handle(s, n) == Result(s, {}, Reply(CommandOkay, "OK"))

(***************************************************************************)
(* Mode::handle                                                            *)
(***************************************************************************)
ModeParam == {"Stream", "Block", "Compressed"}

\* every mode accepted
Mode_handle_allOk(s, n, params) ==
    Result(s, {}, Reply(CommandOkay, "Using Stream transfer mode"))

Mode_handle(s, n, params) ==
    IF params = "Stream"
    THEN Result(s, {}, Reply(CommandOkay, "Using Stream transfer mode"))
    ELSE Result(s, {}, Reply(CommandNotImplementedForParameter,
                             "Only Stream transfer mode is supported"))

(***************************************************************************)
(* Stor::handle                                                            *)
(***************************************************************************)
\* Stor::handle taking data_abort_tx where there is no data_cmd_tx
Stor_handle_dropsAbort(s, n, path) ==
    IF s.data_cmd_tx # None
    THEN Result([s EXCEPT !.data_cmd_tx = None],
                {[kind |-> "cmd_send", n |-> n, ch |-> s.data_cmd_tx[1],
                  cmd |-> [name |-> "Stor", path |-> path]]},
                Reply(FileStatusOkay, "Ready to receive data"))
    ELSE Result([s EXCEPT !.data_abort_tx = None], {},
                Reply(CantOpenDataConnection, "No data connection established"))

\* Stor::handle cloning data_cmd_tx instead of taking it
Stor_handle_noTake(s, n, path) ==
    IF s.data_cmd_tx # None
    THEN Result(s,
                {[kind |-> "cmd_send", n |-> n, ch |-> s.data_cmd_tx[1],
                  cmd |-> [name |-> "Stor", path |-> path]]},
                Reply(FileStatusOkay, "Ready to receive data"))
    ELSE Result(s, {}, Reply(CantOpenDataConnection, "No data connection established"))

\* Stor::handle sending its 150 over the bus, as Size::handle sends its reply
Stor_handle_replyViaBus(s, n, path) ==
    IF s.data_cmd_tx # None
    THEN Result([s EXCEPT !.data_cmd_tx = None],
                {[kind |-> "cmd_send", n |-> n, ch |-> s.data_cmd_tx[1],
                  cmd |-> [name |-> "Stor", path |-> path]],
                 [kind |-> "post", n |-> n,
                  msg |-> CommandChannelReply(FileStatusOkay, <<"Ready to receive data">>,
                                              n, "STOR")]},
                ReplyNone)
    ELSE Result(s, {}, Reply(CantOpenDataConnection, "No data connection established"))

Stor_handle(s, n, path) ==
    IF s.data_cmd_tx # None
    THEN Result([s EXCEPT !.data_cmd_tx = None],
                {[kind |-> "cmd_send", n |-> n, ch |-> s.data_cmd_tx[1],
                  cmd |-> [name |-> "Stor", path |-> path]]},
                Reply(FileStatusOkay, "Ready to receive data"))
    ELSE Result(s, {}, Reply(CantOpenDataConnection, "No data connection established"))

(***************************************************************************)
(* Stou::handle.  uuid is the generated file name.                         *)
(***************************************************************************)
Stou_handle(s, n, uuid) ==
    IF s.data_cmd_tx # None
    THEN Result([s EXCEPT !.data_cmd_tx = None],
                {[kind |-> "cmd_send", n |-> n, ch |-> s.data_cmd_tx[1],
                  cmd |-> [name |-> "Stor", path |-> Join(s.cwd, <<uuid>>)]]},
                Reply(FileStatusOkay, uuid))
    ELSE Result(s, {}, Reply(CantOpenDataConnection, "No data connection established"))

(***************************************************************************)
(* Feat::handle.  The feature lines are byte strings; Vec<&str>::sort      *)
(* orders them bytewise.                                                   *)
(***************************************************************************)
FEATURE_RESTART == 1

\* the bytes of the strings feat.rs puts in feat_text
Bytes(str) ==
    CASE str = " SIZE" -> <<32, 83, 73, 90, 69>>
      [] str = " MDTM" -> <<32, 77, 68, 84, 77>>
      [] str = "UTF8" -> <<85, 84, 70, 56>>
      [] str = " AUTH TLS" -> <<32, 65, 85, 84, 72, 32, 84, 76, 83>>
      [] str = " PBSZ" -> <<32, 80, 66, 83, 90>>
      [] str = " PROT" -> <<32, 80, 82, 79, 84>>
      [] str = " REST STREAM" -> <<32, 82, 69, 83, 84, 32, 83, 84, 82, 69, 65, 77>>
      [] str = "Extensions supported:" ->
            <<69, 120, 116, 101, 110, 115, 105, 111, 110, 115, 32,
              115, 117, 112, 112, 111, 114, 116, 101, 100, 58>>
      [] str = "END" -> <<69, 78, 68>>

\* a < b as byte strings (Ord for str)
RECURSIVE BytesLess(_, _)
BytesLess(a, b) ==
    IF b = <<>> THEN FALSE
    ELSE IF a = <<>> THEN TRUE
    ELSE IF a[1] # b[1] THEN a[1] < b[1]
    ELSE BytesLess(Tail(a), Tail(b))

StrLess(x, y) == BytesLess(Bytes(x), Bytes(y))

\* x put at its place in the sorted sequence sq
RECURSIVE InsertSorted(_, _)
InsertSorted(x, sq) ==
    IF sq = <<>> THEN <<x>>
    ELSE IF StrLess(x, sq[1]) THEN <<x>> \o sq
    ELSE <<sq[1]>> \o InsertSorted(x, Tail(sq))

\* feat_text.sort()
RECURSIVE Sort(_)
Sort(sq) == IF sq = <<>> THEN <<>> ELSE InsertSorted(sq[1], Sort(Tail(sq)))

\* REST STREAM pushed whatever the backend's features
FeatText_restAlways(tls_configured, storage_features) ==
    LET base == <<" SIZE", " MDTM", "UTF8">>
        tls == IF tls_configured THEN <<" AUTH TLS", " PBSZ", " PROT">> ELSE <<>>
    IN  <<"Extensions supported:">> \o Sort(base \o tls \o <<" REST STREAM">>) \o <<"END">>

FeatText(tls_configured, storage_features) ==
    LET base == <<" SIZE", " MDTM", "UTF8">>
        tls == IF tls_configured THEN <<" AUTH TLS", " PBSZ", " PROT">> ELSE <<>>
        \* storage_features & FEATURE_RESTART > 0
        rest == IF (storage_features \div FEATURE_RESTART) % 2 = 1
                THEN <<" REST STREAM">> ELSE <<>>
    IN  <<"Extensions supported:">> \o Sort(base \o tls \o rest) \o <<"END">>

Feat_handle(s, n, tls_configured, storage_features) ==
    Result(s, {}, ReplyMultiline(SystemStatus, FeatText(tls_configured, storage_features)))

(***************************************************************************)
(* Size::handle.  The handler reads the session and spawns the task that   *)
(* awaits storage.metadata; the reply comes over the bus.                  *)
(***************************************************************************)
Size_handle(s, n, path) ==
    Result(s, {[kind |-> "size", n |-> n, path |-> Join(s.cwd, path),
                start_pos |-> s.start_pos]},
           ReplyNone)

(***************************************************************************)
(* Handlers whose files are not among the sources: RNFR stages the source  *)
(* path; PASV (normal mode) sets up data_cmd_tx / data_abort_tx, whose     *)
(* receivers live in the data task, and answers 227.                       *)
(***************************************************************************)
Rnfr_handle(s, n, path) ==
    Result([s EXCEPT !.rename_from = <<Join(s.cwd, path)>>], {},
           Reply(FileActionPending, "Tell me, what would you like the new name to be?"))

Pasv_handle(s, n) ==
    [Result([s EXCEPT !.data_cmd_tx = <<n>>, !.data_abort_tx = <<n>>], {},
            Reply(EnteringPassiveMode, "Entering Passive Mode"))
        EXCEPT !.arm = TRUE]

(***************************************************************************)
(* The control loop: select on the next command or the next bus event,     *)
(* handle it, write the reply.                                             *)
(***************************************************************************)
Idle == [code |-> NoReply, text |-> <<>>, n |-> 0, cmd |-> ""]

NewDataTask == [cmds |-> <<>>, abort |-> 0, done |-> FALSE, puts |-> <<>>]

OnCommand(cmd, arg, res) ==
    /\ pc = "select"
    /\ ncmd < MaxCmds
    /\ ncmd' = ncmd + 1
    /\ session' = res.session
    /\ tasks' = tasks \cup res.spawn
    /\ renameCalls' = renameCalls \o res.calls
    /\ dtasks' = IF res.arm THEN dtasks @@ ((ncmd + 1) :> NewDataTask) ELSE dtasks
    /\ IF res.reply.code = NoReply
       THEN pc' = "select" /\ reply' = Idle
       ELSE /\ pc' = "write"
            /\ reply' = [code |-> res.reply.code, text |-> res.reply.text,
                         n |-> ncmd + 1, cmd |-> cmd]
    /\ log' = Append(log, [cmd |-> cmd, arg |-> arg, pre |-> session, res |-> res])
    /\ UNCHANGED <<bus, written, downgrades, config>>
    /\ UNCHANGED pvars

\* the reply goes out through the socket layer in use: TLS iff cmd_tls
WriteReply ==
    /\ pc = "write"
    /\ written' = Append(written, [code |-> reply.code, text |-> reply.text,
                                   n |-> reply.n, cmd |-> reply.cmd,
                                   tls |-> session.cmd_tls])
    /\ pc' = "select"
    /\ reply' = Idle
    /\ UNCHANGED <<session, ncmd, tasks, bus, dtasks, renameCalls, downgrades, config, log>>
    /\ UNCHANGED pvars

\* the FTP code of a StorageError
StorageErrorCode(kind) == IF kind = "StorageIO" THEN LocalError ELSE FileError

OnEvent ==
    /\ pc = "select"
    /\ bus # <<>>
    /\ bus' = Tail(bus)
    /\ LET msg == Head(bus) IN
       CASE msg.type = "CommandChannelReply" ->
              /\ reply' = [code |-> msg.code, text |-> msg.text, n |-> msg.n, cmd |-> msg.cmd]
              /\ pc' = "write"
              /\ UNCHANGED <<session, downgrades>>
         [] msg.type = "StorageError" ->
              /\ reply' = [code |-> StorageErrorCode(msg.kind), text |-> <<"Storage error">>,
                           n |-> msg.n, cmd |-> msg.cmd]
              /\ pc' = "write"
              /\ UNCHANGED <<session, downgrades>>
         [] msg.type = "PlaintextControlChannel" ->
              /\ session' = [session EXCEPT !.cmd_tls = FALSE]
              /\ downgrades' = Append(downgrades, msg.n)
              /\ UNCHANGED <<pc, reply>>
    /\ UNCHANGED <<ncmd, tasks, dtasks, written, renameCalls, config, log>>
    /\ UNCHANGED pvars

(***************************************************************************)
(* The commands of the client.                                             *)
(***************************************************************************)
CmdAbor == OnCommand("ABOR", <<>>, Abor_handle(session, ncmd + 1))

CmdCcc == OnCommand("CCC", <<>>, Ccc_handle(session, ncmd + 1))

CmdRnfr == \E p \in PathArgs : OnCommand("RNFR", p, Rnfr_handle(session, ncmd + 1, p))

CmdRnto ==
    \E p \in PathArgs, ok \in BOOLEAN : OnCommand("RNTO", p, Rnto_handle(session, ncmd + 1, p, ok))

CmdPbsz == OnCommand("PBSZ", <<>>, Pbsz_handle(session, ncmd + 1))

CmdMode == \E m \in ModeParam : OnCommand("MODE", m, Mode_handle(session, ncmd + 1, m))

CmdFeat ==
    OnCommand("FEAT", <<>>, Feat_handle(session, ncmd + 1, config.tls_configured,
                                  config.storage_features))

CmdSize == \E p \in PathArgs : OnCommand("SIZE", p, Size_handle(session, ncmd + 1, p))

CmdStor == \E p \in PathArgs : OnCommand("STOR", p, Stor_handle(session, ncmd + 1, p))

CmdStou == \E u \in Uuids : OnCommand("STOU", u, Stou_handle(session, ncmd + 1, u))

CmdPasv == OnCommand("PASV", <<>>, Pasv_handle(session, ncmd + 1))

(***************************************************************************)
(* The spawned tasks.                                                      *)
(***************************************************************************)
\* what storage.metadata may answer
MetaOutcomes == {[ok |-> TRUE, len |-> 1024], [ok |-> FALSE, len |-> 0]}

\* the messages the task of Size::handle may send: metadata.len() - start_pos
\* is a u64 subtraction, which panics (overflow checks on) or wraps
SizeTaskPosts(t, meta) ==
    IF ~meta.ok THEN {<<StorageError("NotFound", t.n, "SIZE")>>}
    ELSE IF meta.len >= t.start_pos
    THEN {<<CommandChannelReply(FileStatus, <<ToString(meta.len - t.start_pos)>>,
                                t.n, "SIZE")>>}
    ELSE {<<>>,
          <<CommandChannelReply(FileStatus,
                                <<"2^64-" \o ToString(t.start_pos - meta.len)>>,
                                t.n, "SIZE")>>}

\* tx.send(..) of a task on a channel into the data task; a send to a data
\* task that has ended fails and is logged
SendToDataTask(t) ==
    IF dtasks[t.ch].done THEN dtasks
    ELSE IF t.kind = "abort_send" THEN [dtasks EXCEPT ![t.ch].abort = t.n]
    ELSE [dtasks EXCEPT ![t.ch].cmds = Append(@, [n |-> t.n, cmd |-> t.cmd])]

RunTask ==
    \E t \in tasks, meta \in MetaOutcomes :
        /\ tasks' = tasks \ {t}
        /\ CASE t.kind \in {"abort_send", "cmd_send"} ->
                  /\ dtasks' = SendToDataTask(t)
                  /\ bus' = bus
             [] t.kind = "ccc_send" ->
                  /\ bus' = Append(bus, [type |-> "PlaintextControlChannel", n |-> t.n])
                  /\ dtasks' = dtasks
             [] t.kind = "size" ->
                  /\ \E posts \in SizeTaskPosts(t, meta) : bus' = bus \o posts
                  /\ dtasks' = dtasks
             [] t.kind = "post" ->
                  /\ bus' = Append(bus, t.msg)
                  /\ dtasks' = dtasks
        /\ UNCHANGED <<session, pc, reply, ncmd, written, renameCalls, downgrades, config, log>>
        /\ UNCHANGED pvars

(***************************************************************************)
(* The data task at the receiving end of data_cmd_tx and data_abort_tx.    *)
(* It performs the transfer of the command it receives and posts 226, or   *)
(* a StorageError; on an abort signal it posts 426 and 226 and exits.      *)
(***************************************************************************)
\* what storage.put may answer
PutOutcomes == {"Ok", "StorageIO", "AlreadyExists"}

DataTransferEnd ==
    \E k \in DOMAIN dtasks, outcome \in PutOutcomes :
        /\ ~dtasks[k].done
        /\ dtasks[k].cmds # <<>>
        /\ dtasks' = [dtasks EXCEPT ![k].done = TRUE,
                                    ![k].puts = Append(@, [path |-> dtasks[k].cmds[1].cmd.path,
                                                           outcome |-> outcome])]
        /\ bus' = Append(bus,
                IF outcome = "Ok"
                THEN CommandChannelReply(ClosingDataConnection, <<"Transfer complete">>,
                                         dtasks[k].cmds[1].n, "STOR")
                ELSE StorageError(outcome, dtasks[k].cmds[1].n, "STOR"))
        /\ session' = [session EXCEPT !.start_pos = 0]
        /\ UNCHANGED <<pc, reply, ncmd, tasks, written, renameCalls, downgrades, config, log>>
        /\ UNCHANGED pvars

DataAbort ==
    \E k \in DOMAIN dtasks :
        /\ ~dtasks[k].done
        /\ dtasks[k].abort # 0
        /\ dtasks' = [dtasks EXCEPT ![k].done = TRUE]
        /\ bus' = bus \o <<CommandChannelReply(ConnectionClosed, <<"Transfer aborted">>,
                                               dtasks[k].abort, "ABOR"),
                           CommandChannelReply(ClosingDataConnection, <<"Data channel closed">>,
                                               dtasks[k].abort, "ABOR")>>
        /\ UNCHANGED <<session, pc, reply, ncmd, tasks, written, renameCalls, downgrades,
                       config, log>>
        /\ UNCHANGED pvars

(***************************************************************************)
(* One session.                                                            *)
(***************************************************************************)
\* Server::new_with_authenticator: passive_ports: 49152..65535
DefaultPassivePorts == <<49152, 65535>>

\* a server with FTPS configured and a backend that supports REST
Configs == {[tls_configured |-> TRUE, storage_features |-> FEATURE_RESTART]}

InitWith(configs) ==
    /\ config \in configs
    /\ \E tls \in BOOLEAN :
          /\ tls => config.tls_configured
          /\ session = [cmd_tls |-> tls, rename_from |-> None, start_pos |-> 0,
                        data_cmd_tx |-> None, data_abort_tx |-> None, cwd |-> Cwd,
                        control_msg_tx |-> None, control_connection_info |-> None]
    /\ pc = "select"
    /\ reply = Idle
    /\ ncmd = 0
    /\ tasks = {}
    /\ bus = <<>>
    /\ dtasks = <<>>
    /\ written = <<>>
    /\ renameCalls = <<>>
    /\ downgrades = <<>>
    /\ log = <<>>
    /\ phase = "build"
    /\ passive_ports = DefaultPassivePorts
    /\ proxy_protocol_mode = None
    /\ switchboard = None
    /\ psessions = <<>>
    /\ proxyloop = <<>>
    /\ connlog = <<>>

Init == InitWith(Configs)

Next ==
    \/ CmdAbor \/ CmdCcc \/ CmdRnfr \/ CmdRnto \/ CmdPbsz \/ CmdMode \/ CmdFeat
    \/ CmdSize \/ CmdStor \/ CmdStou \/ CmdPasv
    \/ WriteReply \/ OnEvent \/ RunTask \/ DataTransferEnd \/ DataAbort

Spec == Init /\ [][Next]_vars

\* the scheduler runs every spawned task and every data task, and the loop
\* keeps selecting and writing
FairSpec ==
    /\ Spec
    /\ WF_vars(RunTask) /\ WF_vars(OnEvent) /\ WF_vars(WriteReply)
    /\ WF_vars(DataTransferEnd) /\ WF_vars(DataAbort)

(***************************************************************************)
(* Properties of one session.                                              *)
(***************************************************************************)
IsPrefix(a, b) == Len(a) <= Len(b) /\ a = SubSeq(b, 1, Len(a))

\* the codes of the replies written for command n, in the order written
RepliesTo(n) ==
    LET rs == SelectSeq(written, LAMBDA r : r.n = n)
    IN  [i \in DOMAIN rs |-> rs[i].code]

\* nothing is left to run
Quiescent ==
    /\ pc = "select" /\ tasks = {} /\ bus = <<>>
    /\ \A k \in DOMAIN dtasks : dtasks[k].done \/ (dtasks[k].cmds = <<>> /\ dtasks[k].abort = 0)

Handled(i, cmds) == i \in DOMAIN log /\ log[i].cmd \in cmds

\* C1 (as claimed): an ABOR handled while data_abort_tx is populated is
\* answered by exactly 426 then 226, an ABOR handled while it is empty by
\* exactly one 226.
C1_AborRepliesAsClaimed ==
    \A i \in DOMAIN log :
        log[i].cmd = "ABOR" =>
            LET want == IF log[i].pre.data_abort_tx # None
                        THEN <<ConnectionClosed, ClosingDataConnection>>
                        ELSE <<ClosingDataConnection>>
            IN  /\ IsPrefix(RepliesTo(i), want)
                /\ Quiescent => RepliesTo(i) = want

\* the PlaintextControlChannel events command n has caused: to be sent,
\* on the bus, consumed
PlaintextEvents(n) ==
    Cardinality({t \in tasks : t.kind = "ccc_send" /\ t.n = n})
    + Len(SelectSeq(bus, LAMBDA m : m.type = "PlaintextControlChannel" /\ m.n = n))
    + Len(SelectSeq(downgrades, LAMBDA d : d = n))

C2_Safety ==
    \A i \in DOMAIN log :
        log[i].cmd = "CCC" =>
            IF log[i].pre.cmd_tls
            THEN log[i].res.reply.code = CommandOkay
            ELSE /\ log[i].res.reply.code = Resp533
                 /\ PlaintextEvents(i) = 0
                 /\ log[i].res.session.cmd_tls = FALSE

\* C2: CCC on a plaintext control channel replies 533, posts no
\* PlaintextControlChannel and leaves cmd_tls false; CCC on an encrypted one
\* replies 200 and the session then reaches cmd_tls = FALSE.
C2_CccReplyAndDowngrade ==
    /\ []C2_Safety
    /\ \A n \in 1..MaxCmds :
          (Handled(n, {"CCC"}) /\ log[n].pre.cmd_tls) ~> (session.cmd_tls = FALSE)

C2_Witness ==
    /\ \E i \in DOMAIN log : log[i].cmd = "CCC" /\ log[i].pre.cmd_tls
    /\ \E i \in DOMAIN log : log[i].cmd = "CCC" /\ ~log[i].pre.cmd_tls
    /\ session.cmd_tls = FALSE

\* C3: the 200 of an accepted CCC is written while the channel is still
\* encrypted, and the loop downgrades only after that 200 has been written.
C3_AckBeforeDowngrade ==
    /\ \A j \in DOMAIN downgrades :
          \E i \in DOMAIN written :
              written[i].n = downgrades[j] /\ written[i].code = CommandOkay /\ written[i].tls
    /\ \A i \in DOMAIN written :
          (written[i].cmd = "CCC" /\ written[i].code = CommandOkay) => written[i].tls

C3_Witness ==
    /\ downgrades # <<>>
    /\ \E i \in DOMAIN written : written[i].cmd = "CCC" /\ written[i].code = CommandOkay

\* commands j > i such that RNFR i is followed by other commands, none of
\* them RNFR or RNTO, and then by RNTO j
Interposed(i, j) ==
    /\ log[i].cmd = "RNFR" /\ log[i].res.reply.code = FileActionPending
    /\ log[j].cmd = "RNTO"
    /\ i + 1 < j
    /\ \A k \in (i + 1)..(j - 1) : log[k].cmd \notin {"RNFR", "RNTO"}

\* C4 (as claimed): when another command is handled between a successful
\* RNFR and the RNTO, the RNTO finds rename_from empty, replies 503 and does
\* not call storage.rename.
C4_InterposedAsClaimed ==
    \A i, j \in DOMAIN log :
        Interposed(i, j) =>
            /\ log[j].pre.rename_from = None
            /\ log[j].res.reply.code = BadCommandSequence
            /\ log[j].res.calls = <<>>

\* C5 (as claimed): RNTO with rename_from empty replies 503, calls no rename
\* and leaves the session as it is; RNTO with a staged path calls
\* rename(from, cwd joined with the argument) once and replies 250 on success.
C5_RntoAsClaimed ==
    \A i \in DOMAIN log :
        log[i].cmd = "RNTO" =>
            IF log[i].pre.rename_from = None
            THEN /\ log[i].res.reply.code = BadCommandSequence
                 /\ log[i].res.calls = <<>>
                 /\ log[i].res.session = log[i].pre
            ELSE /\ log[i].res.calls = <<[from |-> log[i].pre.rename_from[1],
                                          to |-> Join(log[i].pre.cwd, log[i].arg)]>>
                 /\ log[i].res.reply.code \in {FileActionOkay, FileError}

\* the command records command n has sent towards a data task: to be sent,
\* or received by the data task
RecordsSent(n) ==
    Cardinality({t \in tasks : t.kind = "cmd_send" /\ t.n = n})
    + Cardinality({<<k, x>> \in {<<k, x>> \in (DOMAIN dtasks) \X (1..MaxCmds) :
                                      x \in DOMAIN dtasks[k].cmds} :
                       dtasks[k].cmds[x].n = n})

\* C6: STOR or STOU with data_cmd_tx empty replies 425, sends no command
\* record, and leaves data_cmd_tx, data_abort_tx, start_pos and cwd as they
\* are.
C6_NoChannel ==
    \A i \in DOMAIN log :
        (log[i].cmd \in {"STOR", "STOU"} /\ log[i].pre.data_cmd_tx = None) =>
            /\ log[i].res.reply.code = CantOpenDataConnection
            /\ log[i].res.spawn = {}
            /\ RecordsSent(i) = 0
            /\ log[i].res.session.data_cmd_tx = None
            /\ log[i].res.session.data_abort_tx = log[i].pre.data_abort_tx
            /\ log[i].res.session.start_pos = log[i].pre.start_pos
            /\ log[i].res.session.cwd = log[i].pre.cwd

C6_Witness ==
    \E i \in DOMAIN log :
        /\ log[i].cmd \in {"STOR", "STOU"} /\ log[i].pre.data_cmd_tx = None
        /\ log[i].pre.data_abort_tx # None
        /\ \E j \in DOMAIN written : written[j].n = i

\* the STOR/STOU commands accepted (150) on the channel of arming k
AcceptedOn(k) ==
    {i \in DOMAIN log : /\ log[i].cmd \in {"STOR", "STOU"}
                        /\ log[i].pre.data_cmd_tx = <<k>>
                        /\ log[i].res.reply.code = FileStatusOkay}

\* C7: a STOR or STOU with data_cmd_tx populated takes it out of the
\* session, replies 150 and sends one command record; per arming at most
\* one data command is accepted, and a further one without re-arming gets 425.
C7_FireOnce ==
    /\ \A i \in DOMAIN log :
          (log[i].cmd \in {"STOR", "STOU"} /\ log[i].pre.data_cmd_tx # None) =>
              /\ log[i].res.session.data_cmd_tx = None
              /\ log[i].res.reply.code = FileStatusOkay
              /\ Cardinality(log[i].res.spawn) = 1
              /\ \A t \in log[i].res.spawn :
                    t.kind = "cmd_send" /\ t.ch = log[i].pre.data_cmd_tx[1]
              /\ RecordsSent(i) <= 1
    /\ \A k \in DOMAIN dtasks :
          /\ Cardinality(AcceptedOn(k)) <= 1
          /\ Len(dtasks[k].cmds) <= 1
    /\ \A i, j \in DOMAIN log :
          ( /\ i < j
            /\ log[i].cmd \in {"STOR", "STOU"} /\ log[j].cmd \in {"STOR", "STOU"}
            /\ \A k \in (i + 1)..(j - 1) : log[k].cmd # "PASV" )
          => log[j].res.reply.code = CantOpenDataConnection

C7_Witness ==
    \E i, j \in DOMAIN log :
        /\ i < j
        /\ log[i].cmd \in {"STOR", "STOU"} /\ log[i].res.reply.code = FileStatusOkay
        /\ log[j].cmd \in {"STOR", "STOU"} /\ log[j].res.reply.code = CantOpenDataConnection
        /\ \E k \in DOMAIN dtasks : Len(dtasks[k].cmds) = 1 /\ dtasks[k].cmds[1].n = i

\* C8: the 226 that completes a transfer is written after the 150 of the
\* STOR/STOU that started it.
C8_CompletionAfter150 ==
    \A i \in DOMAIN written :
        (written[i].code = ClosingDataConnection /\ Handled(written[i].n, {"STOR", "STOU"})) =>
            \E j \in 1..(i - 1) :
                written[j].n = written[i].n /\ written[j].code = FileStatusOkay

C8_Witness ==
    \E i \in DOMAIN written :
        /\ written[i].code = ClosingDataConnection
        /\ Handled(written[i].n, {"STOR", "STOU"})
        /\ \E j \in 1..(i - 1) : written[j].code = FileStatusOkay

(***************************************************************************)
(* PROXY protocol mode: the Server builder, listen_proxy_protocol_mode and *)
(* the switchboard.                                                        *)
(***************************************************************************)
\* TCP connections the listener accepts
MaxConns == 3

\* PASV commands the proxied sessions handle
MaxPasv == 2

\* the ranges the embedding program passes to Server::passive_ports
PassiveRanges == {<<50000, 50002>>}

\* the ports it passes to Server::proxy_protocol_mode
ControlPorts == {2121, 50000}

\* what the PROXY headers of the incoming connections carry
\* a client that reached the proxy over IPv4 and one that reached it over IPv6
Peers == {[from_ip |-> "198.51.100.1", to_ip |-> [v |-> 4, octets |-> <<192, 0, 2, 7>>]],
          [from_ip |-> "2001:db8::1", to_ip |-> [v |-> 6, octets |-> <<>>]]}

ToPorts == {80, 2121, 50000, 50001}

ConnectionTuple ==
    {[from_ip |-> p.from_ip, from_port |-> 40000, to_ip |-> p.to_ip, to_port |-> port] :
        p \in Peers, port \in ToPorts}

\* get_peer_from_proxy_header: Ok(connection) for a valid v1/v2 header, or Err
ProxyHeaders == {<<c>> : c \in ConnectionTuple} \cup {None}

\* Range<u16>::contains
Contains(range, port) == range[1] <= port /\ port < range[2]

\* Server::passive_ports
PassivePorts ==
    \E range \in PassiveRanges :
        /\ phase = "build"
        /\ passive_ports' = range
        /\ UNCHANGED <<phase, proxy_protocol_mode, switchboard, psessions, proxyloop, connlog>>
        /\ UNCHANGED svars

\* Server::proxy_protocol_mode; ProxyProtocolSwitchboard::new(range)
ProxyProtocolMode ==
    \E external_control_port \in ControlPorts :
        /\ phase = "build"
        /\ proxy_protocol_mode' = <<external_control_port>>
        /\ switchboard' = <<[port_range |-> passive_ports, entries |-> {}]>>
        /\ UNCHANGED <<phase, passive_ports, psessions, proxyloop, connlog>>
        /\ UNCHANGED svars

\* Server::listen with ProxyMode::On
Listen ==
    /\ phase = "build"
    /\ proxy_protocol_mode # None
    /\ phase' = "listen"
    /\ UNCHANGED <<passive_ports, proxy_protocol_mode, switchboard, psessions, proxyloop,
                   connlog>>
    /\ UNCHANGED svars

\* what listen_proxy_protocol_mode takes an accepted connection for
Classify_rangeFirst(header, external_control_port, ports) ==
    IF header = None THEN "rejected"
    ELSE IF Contains(ports, header[1].to_port) THEN "data"
    ELSE IF header[1].to_port = external_control_port THEN "control"
    ELSE "unconfigured"

Classify(header, external_control_port, ports) ==
    IF header = None THEN "rejected"
    ELSE IF header[1].to_port = external_control_port THEN "control"
    ELSE IF ~Contains(ports, header[1].to_port) THEN "unconfigured"
    ELSE "data"

\* the session spawn_loop(params, tcp_stream, Some(connection), Some(tx)) creates
NewProxySession(connection) ==
    [session |-> [cmd_tls |-> FALSE, rename_from |-> None, start_pos |-> 0,
                  data_cmd_tx |-> None, data_abort_tx |-> None, cwd |-> Cwd,
                  control_msg_tx |-> None,
                  control_connection_info |-> <<connection>>],
     bus |-> <<>>, streams |-> 0, npasv |-> 0]

\* ProxyProtocolSwitchboard::get_session_by_incoming_data_connection
GetSessionByIncomingDataConnection(sb, connection) ==
    {e \in sb.entries : e.from_ip = connection.from_ip /\ e.to_port = connection.to_port}

\* ProxyProtocolSwitchboard::unregister
Unregister(sb, connection) ==
    [sb EXCEPT !.entries =
        {e \in @ : ~(e.from_ip = connection.from_ip /\ e.to_port = connection.to_port)}]

\* dispatch_data_connection without the unregister
DispatchDataConnection_keepsEntry(sbo, ss, connection) ==
    IF sbo = None
    THEN [switchboard |-> sbo, psessions |-> ss, lookup |-> FALSE, found |-> 0,
          stream |-> "dropped"]
    ELSE
      LET found == GetSessionByIncomingDataConnection(sbo[1], connection) IN
      IF found = {}
      THEN [switchboard |-> sbo, psessions |-> ss, lookup |-> TRUE, found |-> 0,
            stream |-> "shutdown"]
      ELSE
        LET s == (CHOOSE e \in found : TRUE).session IN
        IF ss[s].session.control_msg_tx # None
        THEN [switchboard |-> sbo,
              psessions |-> [ss EXCEPT ![s].streams = @ + 1],
              lookup |-> TRUE, found |-> s, stream |-> "spawn_processing"]
        ELSE [switchboard |-> sbo, psessions |-> ss, lookup |-> TRUE, found |-> s,
              stream |-> "dropped"]

\* Server::dispatch_data_connection: the switchboard and the sessions it
\* leaves, and what became of the stream
DispatchDataConnection(sbo, ss, connection) ==
    IF sbo = None
    THEN [switchboard |-> sbo, psessions |-> ss, lookup |-> FALSE, found |-> 0,
          stream |-> "dropped"]
    ELSE
      LET found == GetSessionByIncomingDataConnection(sbo[1], connection) IN
      IF found = {}
      THEN [switchboard |-> sbo, psessions |-> ss, lookup |-> TRUE, found |-> 0,
            stream |-> "shutdown"]
      ELSE
        LET s == (CHOOSE e \in found : TRUE).session IN
        IF ss[s].session.control_msg_tx # None
        THEN [switchboard |-> <<Unregister(sbo[1], connection)>>,
              \* spawn_processing(&mut session, tcp_stream, tx)
              psessions |-> [ss EXCEPT ![s].streams = @ + 1],
              lookup |-> TRUE, found |-> s, stream |-> "spawn_processing"]
        ELSE [switchboard |-> sbo, psessions |-> ss, lookup |-> TRUE, found |-> s,
              stream |-> "dropped"]

\* what the listener does with one accepted connection
AcceptHeader(header, spawn_ok) ==
        /\ phase = "listen"
        /\ Len(connlog) < MaxConns
        /\ LET class == Classify(header, proxy_protocol_mode[1], passive_ports)
               connection == header[1]
               d == DispatchDataConnection(switchboard, psessions, connection)
               entry == [header |-> header, class |-> class, sb_pre |-> switchboard]
           IN
           CASE class = "rejected" ->
                  /\ connlog' = Append(connlog,
                        entry @@ [spawn_loop |-> None, spawned |-> 0, lookup |-> FALSE,
                                  found |-> 0, stream |-> "dropped", sb_post |-> switchboard])
                  /\ UNCHANGED <<switchboard, psessions>>
             [] class = "control" ->
                  /\ psessions' = IF spawn_ok
                                  THEN Append(psessions, NewProxySession(connection))
                                  ELSE psessions
                  /\ connlog' = Append(connlog,
                        entry @@ [spawn_loop |-> <<connection>>,
                                  spawned |-> IF spawn_ok THEN Len(psessions) + 1 ELSE 0,
                                  lookup |-> FALSE, found |-> 0, stream |-> "control",
                                  sb_post |-> switchboard])
                  /\ UNCHANGED switchboard
             [] class = "unconfigured" ->
                  /\ connlog' = Append(connlog,
                        entry @@ [spawn_loop |-> None, spawned |-> 0, lookup |-> FALSE,
                                  found |-> 0, stream |-> "shutdown", sb_post |-> switchboard])
                  /\ UNCHANGED <<switchboard, psessions>>
             [] class = "data" ->
                  /\ switchboard' = d.switchboard
                  /\ psessions' = d.psessions
                  /\ connlog' = Append(connlog,
                        entry @@ [spawn_loop |-> None, spawned |-> 0, lookup |-> d.lookup,
                                  found |-> d.found, stream |-> d.stream,
                                  sb_post |-> d.switchboard])
        /\ UNCHANGED <<phase, passive_ports, proxy_protocol_mode, proxyloop>>
        /\ UNCHANGED svars

\* an unwrap of the decoded header in place of the match
Accept_unwrapHeader ==
    \E header \in ProxyHeaders, spawn_ok \in BOOLEAN :
        IF header = None
        THEN /\ phase = "listen"
             /\ Len(connlog) < MaxConns
             /\ phase' = "panicked"
             /\ connlog' = Append(connlog,
                    [header |-> header, class |-> "rejected", sb_pre |-> switchboard,
                     spawn_loop |-> None, spawned |-> 0, lookup |-> FALSE, found |-> 0,
                     stream |-> "dropped", sb_post |-> switchboard])
             /\ UNCHANGED <<passive_ports, proxy_protocol_mode, switchboard, psessions,
                            proxyloop>>
             /\ UNCHANGED svars
        ELSE AcceptHeader(header, spawn_ok)

\* the arm  Some(tcp_stream) = incoming.next()  of the listener's select
Accept == \E header \in ProxyHeaders, spawn_ok \in BOOLEAN : AcceptHeader(header, spawn_ok)

\* PASV commands handled so far by the proxied sessions
RECURSIVE PasvCount(_)
PasvCount(ss) == IF ss = <<>> THEN 0 ELSE ss[1].npasv + PasvCount(Tail(ss))

(***************************************************************************)
(* PASV in PROXY mode, as the specification describes it: the handler      *)
(* binds no port; it sets up the channels to the data task, asks the       *)
(* listener for a port with AssignDataPortCommand(session) and returns an  *)
(* empty reply; the 227 line comes over the bus.                           *)
(***************************************************************************)
Pasv_handle_proxy(s, n) ==
    Result([s EXCEPT !.data_cmd_tx = <<n>>, !.data_abort_tx = <<n>>, !.control_msg_tx = <<n>>],
           {}, ReplyNone)

ProxyPasv ==
    \E s \in DOMAIN psessions :
        /\ phase = "listen"
        /\ PasvCount(psessions) < MaxPasv
        /\ LET res == Pasv_handle_proxy(psessions[s].session, psessions[s].npasv + 1) IN
           psessions' = [psessions EXCEPT ![s].session = res.session, ![s].npasv = @ + 1]
        /\ proxyloop' = Append(proxyloop, s)
        /\ UNCHANGED <<phase, passive_ports, proxy_protocol_mode, switchboard, connlog>>
        /\ UNCHANGED svars

\* the lowest port of [p, hi) that is not in used, or 0
RECURSIVE NextFree(_, _, _)
NextFree(p, hi, used) ==
    IF p >= hi THEN 0 ELSE IF p \notin used THEN p ELSE NextFree(p + 1, hi, used)

\* ProxyProtocolSwitchboard::reserve_next_free_port
ReserveNextFreePort(sb, ss, s) ==
    LET from_ip == ss[s].session.control_connection_info[1].from_ip
        used == {e.to_port : e \in {x \in sb.entries : x.from_ip = from_ip}}
        port == NextFree(sb.port_range[1], sb.port_range[2], used)
    IN IF port = 0
       THEN [ok |-> FALSE, port |-> 0, sb |-> sb]
       ELSE [ok |-> TRUE, port |-> port,
             sb |-> [sb EXCEPT !.entries =
                        @ \cup {[from_ip |-> from_ip, to_port |-> port, session |-> s]}]]

\* a shift by 4 in place of 8
Shr8_by4(port) == port \div 16

\* port >> 8 on a u16
Shr8(port) == port \div 256

\* Server::select_and_register_passive_port: the switchboard and the
\* sessions it leaves, or a panic
SelectAndRegisterPassivePort(sbo, ss, s) ==
    LET r == IF sbo = None THEN [ok |-> TRUE, port |-> 0, sb |-> None]
             ELSE ReserveNextFreePort(sbo[1], ss, s)
        p1 == Shr8(r.port)
        p2 == r.port - (p1 * 256)
        sb2 == IF sbo = None THEN sbo ELSE <<r.sb>>
        sess == ss[s].session
    IN
    IF ~r.ok
    THEN [panic |-> TRUE, switchboard |-> sbo, psessions |-> ss]
    ELSE IF sess.control_connection_info = None
    THEN [panic |-> FALSE, switchboard |-> sb2, psessions |-> ss]
    ELSE
      LET conn == sess.control_connection_info[1] IN
      IF conn.to_ip.v = 6
      THEN [panic |-> TRUE, switchboard |-> sb2, psessions |-> ss]
      ELSE IF sess.control_msg_tx = None
      THEN [panic |-> FALSE, switchboard |-> sb2, psessions |-> ss]
      ELSE [panic |-> FALSE, switchboard |-> sb2,
            psessions |->
              [ss EXCEPT ![s].bus =
                 Append(@, [type |-> "CommandChannelReply", code |-> EnteringPassiveMode,
                            text |-> <<"Entering Passive Mode", conn.to_ip.octets, p1, p2>>,
                            port |-> r.port, n |-> Len(ss[s].bus) + 1])]]

\* the arm  Some(msg) = proxyloop_msg_rx.next()  of the listener's select
AssignDataPortCommand ==
    /\ phase = "listen"
    /\ proxyloop # <<>>
    /\ LET r == SelectAndRegisterPassivePort(switchboard, psessions, Head(proxyloop)) IN
       /\ phase' = IF r.panic THEN "panicked" ELSE phase
       /\ switchboard' = r.switchboard
       /\ psessions' = r.psessions
    /\ proxyloop' = Tail(proxyloop)
    /\ UNCHANGED <<passive_ports, proxy_protocol_mode, connlog>>
    /\ UNCHANGED svars

ProxyInit == Init

ProxyNext ==
    \/ PassivePorts \/ ProxyProtocolMode \/ Listen
    \/ Accept \/ ProxyPasv \/ AssignDataPortCommand

ProxySpec == ProxyInit /\ [][ProxyNext]_vars

(***************************************************************************)
(* Properties of PROXY mode.                                               *)
(***************************************************************************)
\* the session's latest PASV has been answered with 227 over the bus
Answered227(s) ==
    /\ psessions[s].npasv > 0
    /\ \E i \in DOMAIN psessions[s].bus :
          /\ psessions[s].bus[i].code = EnteringPassiveMode
          /\ psessions[s].bus[i].n = psessions[s].npasv

\* the session's request for a port is still on its way to the listener
PortRequestPending(s) == \E i \in DOMAIN proxyloop : proxyloop[i] = s

\* C9: once the listener is through with a session's request for a port, the
\* session's data_cmd_tx is populated if and only if its PASV was answered
\* with 227 (no proxied session has a transfer in flight here).
C9_PopulatedIffArmed ==
    \A s \in DOMAIN psessions :
        ~PortRequestPending(s) =>
            ((psessions[s].session.data_cmd_tx # None) <=> Answered227(s))

\* the sessions the listener spawned, in the order of their connections
SpawnedBy(lg) == {i \in DOMAIN lg : lg[i].spawned # 0}

\* C10: a connection with a valid PROXY header is taken by its to_port: for
\* the control port, spawn_loop gets the tuple and the session it creates
\* carries it as control_connection_info, whether or not the port is also a
\* passive port, and the switchboard is not consulted; otherwise for a port
\* of the passive range, the switchboard is looked up and nothing is
\* spawned; otherwise the stream is shut down, nothing is spawned and the
\* switchboard is neither consulted nor changed.
C10_ClassifiedByToPort ==
    /\ Len(psessions) = Cardinality(SpawnedBy(connlog))
    /\ \A i \in DOMAIN connlog :
          LET e == connlog[i] IN
          e.header # None =>
            LET c == e.header[1] IN
            IF c.to_port = proxy_protocol_mode[1]
            THEN /\ e.spawn_loop = <<c>>
                 /\ ~e.lookup
                 /\ e.sb_post = e.sb_pre
                 /\ e.spawned # 0 =>
                       psessions[e.spawned].session.control_connection_info = <<c>>
            ELSE IF Contains(passive_ports, c.to_port)
            THEN /\ e.lookup
                 /\ e.spawn_loop = None
                 /\ e.spawned = 0
            ELSE /\ e.stream = "shutdown"
                 /\ e.spawn_loop = None
                 /\ e.spawned = 0
                 /\ ~e.lookup
                 /\ e.sb_post = e.sb_pre

\* the control port lies in the passive range, and the listener has taken a
\* connection to it, one to another passive port and one to a port of neither
C10_Witness ==
    /\ proxy_protocol_mode # None
    /\ Contains(passive_ports, proxy_protocol_mode[1])
    /\ \E i, j, k \in DOMAIN connlog :
          /\ connlog[i].header # None /\ connlog[j].header # None /\ connlog[k].header # None
          /\ connlog[i].header[1].to_port = proxy_protocol_mode[1]
          /\ connlog[i].spawned # 0
          /\ connlog[j].header[1].to_port # proxy_protocol_mode[1]
          /\ Contains(passive_ports, connlog[j].header[1].to_port)
          /\ connlog[j].lookup
          /\ ~Contains(passive_ports, connlog[k].header[1].to_port)
          /\ connlog[k].stream = "shutdown"

\* the entries of a switchboard that a connection's (from_ip, to_port) matches
Matching(sbo, c) ==
    IF sbo = None THEN {}
    ELSE {e \in sbo[1].entries : e.from_ip = c.from_ip /\ e.to_port = c.to_port}

\* the data connections handed to session s that came in for port p
HandedTo(s, p) ==
    {i \in DOMAIN connlog : /\ connlog[i].stream = "spawn_processing"
                            /\ connlog[i].found = s
                            /\ connlog[i].header[1].to_port = p}

\* the 227 replies session s has got for port p
ReservedFor(s, p) ==
    {i \in DOMAIN psessions[s].bus : psessions[s].bus[i].port = p}

PortLows == 1..65534

\* the original destination addresses of the control connection
V4Addrs == {<<192, 0, 2, 7>>, <<255, 0, 10, 255>>}

PortInit ==
    /\ Init
    /\ FALSE = session.cmd_tls

PortStart ==
    /\ phase = "build"
    /\ \E lo \in PortLows, octets \in V4Addrs :
          /\ passive_ports' = <<lo, lo + 1>>
          /\ switchboard' = <<[port_range |-> <<lo, lo + 1>>, entries |-> {}]>>
          /\ psessions' = <<NewProxySession([from_ip |-> "198.51.100.1", from_port |-> 40000,
                                             to_ip |-> [v |-> 4, octets |-> octets],
                                             to_port |-> 2121])>>
    /\ phase' = "listen"
    /\ proxy_protocol_mode' = <<2121>>
    /\ UNCHANGED <<proxyloop, connlog>>
    /\ UNCHANGED svars

PortNext == PortStart \/ ProxyPasv \/ AssignDataPortCommand

PortSpec == PortInit /\ [][PortNext]_vars

\* the 227 replies posted to the proxied sessions
Posted227 ==
    {<<s, i>> \in (DOMAIN psessions) \X (1..MaxPasv) :
        /\ i \in DOMAIN psessions[s].bus
        /\ psessions[s].bus[i].code = EnteringPassiveMode}

\* C12: every 227 posted in PROXY mode carries the octets of the session's
\* control_connection_info.to_ip and p1, p2 in 0..255 with p1*256 + p2 the
\* port reserved for the session, a port of the passive range.
C12_PasvEncoding ==
    \A x \in Posted227 :
        LET s == x[1]
            m == psessions[s].bus[x[2]]
            info == psessions[s].session.control_connection_info[1]
            p1 == m.text[3]
            p2 == m.text[4]
        IN  /\ m.text[2] = info.to_ip.octets
            /\ p1 \in 0..255
            /\ p2 \in 0..255
            /\ p1 * 256 + p2 = m.port
            /\ switchboard # None
            /\ Contains(switchboard[1].port_range, m.port)
            /\ [from_ip |-> info.from_ip, to_port |-> m.port, session |-> s]
                   \in switchboard[1].entries

\* a 227 was posted for a port with p1 and p2 both at their upper end
C12_Witness ==
    \E x \in Posted227 :
        LET m == psessions[x[1]].bus[x[2]]
        IN  m.text[3] = 255 /\ m.text[4] = 254 /\ m.text[2] = <<255, 0, 10, 255>>

\* the requests of session s for a port that the listener has taken up
RequestsHandled(s) ==
    psessions[s].npasv - Cardinality({i \in DOMAIN proxyloop : proxyloop[i] = s})

\* C13 (as claimed): the listener answers every request for a port, with 227
\* or, when every port of the range is reserved, with 425 and no new
\* switchboard entry, and it keeps serving.
C13_ExhaustionAsClaimed ==
    /\ phase # "panicked"
    /\ \A s \in DOMAIN psessions :
          /\ Len(psessions[s].bus) = RequestsHandled(s)
          /\ \A i \in DOMAIN psessions[s].bus :
                psessions[s].bus[i].code \in {EnteringPassiveMode, CantOpenDataConnection}
    /\ switchboard # None =>
          Cardinality(switchboard[1].entries)
              <= switchboard[1].port_range[2] - switchboard[1].port_range[1]

\* the listener has just taken a connection without a valid PROXY header
RejectStep ==
    /\ Len(connlog') = Len(connlog) + 1
    /\ connlog'[Len(connlog')].header = None

\* C14: a connection whose PROXY header does not decode is rejected: no
\* control loop is spawned, the switchboard is neither consulted nor
\* changed, no session is touched, and the listener goes on listening.
C14_InvalidHeaderRejected ==
    [][RejectStep =>
         LET e == connlog'[Len(connlog')] IN
         /\ e.class = "rejected"
         /\ e.spawn_loop = None /\ e.spawned = 0
         /\ ~e.lookup /\ e.found = 0
         /\ e.stream = "dropped"
         /\ psessions' = psessions
         /\ switchboard' = switchboard
         /\ proxyloop' = proxyloop
         /\ phase' = "listen"]_vars

\* after a rejected connection the listener has spawned a control loop for
\* a later one and handed a later data connection to its session
C14_Witness ==
    \E i, j \in DOMAIN connlog :
        /\ i < j
        /\ connlog[i].header = None
        /\ connlog[j].spawned # 0
        /\ \E s \in DOMAIN psessions : Len(psessions[s].bus) > 0

(***************************************************************************)
(* FEAT under every configuration.                                        *)
(***************************************************************************)
\* the feature bitsets of a backend: bit 0 is RESTART
FeatureSets == 0..7

FeatConfigs == [tls_configured : BOOLEAN, storage_features : FeatureSets]

FeatInit == InitWith(FeatConfigs)

FeatNext == CmdFeat \/ WriteReply

FeatSpec == FeatInit /\ [][FeatNext]_vars

\* the name of the feature a line of the reply lists: the line less its
\* leading spaces
RECURSIVE StripSpaces(_)
StripSpaces(b) == IF b # <<>> /\ b[1] = 32 THEN StripSpaces(Tail(b)) ELSE b

FeatureName(line) == StripSpaces(Bytes(line))

\* the lines between the first and the last of a FEAT reply
FeatureLines(text) == SubSeq(text, 2, Len(text) - 1)

FeaturesListed(text) == {FeatureName(FeatureLines(text)[i]) : i \in DOMAIN FeatureLines(text)}

\* the FEAT replies written so far
FeatReplies == {written[i].text : i \in {j \in DOMAIN written : written[j].cmd = "FEAT"}}

\* C15: a FEAT reply lists SIZE, MDTM and UTF8 always, AUTH TLS, PBSZ and
\* PROT exactly when TLS is configured, REST STREAM exactly when the
\* backend's features have the RESTART bit, and nothing else.
C15_FeatContents ==
    \A text \in FeatReplies :
        FeaturesListed(text) =
            {FeatureName(" SIZE"), FeatureName(" MDTM"), FeatureName("UTF8")}
            \cup (IF config.tls_configured
                  THEN {FeatureName(" AUTH TLS"), FeatureName(" PBSZ"), FeatureName(" PROT")}
                  ELSE {})
            \cup (IF (config.storage_features \div FEATURE_RESTART) % 2 = 1
                  THEN {FeatureName(" REST STREAM")} ELSE {})

\* a FEAT reply with TLS not configured and a backend whose features have
\* other bits set but not RESTART
C15_Witness ==
    /\ FeatReplies # {}
    /\ ~config.tls_configured
    /\ config.storage_features = 6

\* C16 (as claimed): a FEAT reply starts with "Extensions supported:", ends
\* with "END", and in between every line begins with exactly one space and
\* the lines are in alphabetical order of the feature names.
C16_FeatLayoutAsClaimed ==
    \A text \in FeatReplies :
        /\ text[1] = "Extensions supported:"
        /\ text[Len(text)] = "END"
        /\ \A i \in DOMAIN FeatureLines(text) :
              LET b == Bytes(FeatureLines(text)[i])
              IN  b[1] = 32 /\ b[2] # 32
        /\ \A i, j \in DOMAIN FeatureLines(text) :
              i < j => BytesLess(FeatureName(FeatureLines(text)[i]),
                                 FeatureName(FeatureLines(text)[j]))

(***************************************************************************)
(* SIZE after REST.  REST is not among the sources: as the specification   *)
(* has it, REST N sets start_pos to N and answers 350.                     *)
(***************************************************************************)
\* the offsets the client gives to REST: inside a file of 1024 bytes, and
\* beyond its end
RestOffsets == {100, 2000}

Rest_handle(s, n, offset) ==
    Result([s EXCEPT !.start_pos = offset], {},
           Reply(FileActionPending, "Restarting at the given offset"))

CmdRest == \E o \in RestOffsets : OnCommand("REST", <<o>>, Rest_handle(session, ncmd + 1, o))

SizeNext == CmdRest \/ CmdSize \/ RunTask \/ OnEvent \/ WriteReply

SizeSpec == Init /\ [][SizeNext]_vars

\* the length storage.metadata reports for an existing file
ReportedLen == {m.len : m \in {x \in MetaOutcomes : x.ok}}

\* C17 (as claimed): the 213 reply to a SIZE carries the length that the
\* backend's metadata reports, whatever start_pos is.
C17_SizeAsClaimed ==
    \A i \in DOMAIN written :
        (Handled(written[i].n, {"SIZE"}) /\ written[i].code = FileStatus) =>
            \E len \in ReportedLen : written[i].text = <<ToString(len)>>

\* C18: MODE Stream replies 200, MODE Block and MODE Compressed reply 504;
\* the handler always returns a reply, spawns nothing and leaves the
\* session as it is.
C18_ModeReplies ==
    \A i \in DOMAIN log :
        log[i].cmd = "MODE" =>
            /\ log[i].res.reply.code =
                  (IF log[i].arg = "Stream" THEN CommandOkay
                   ELSE CommandNotImplementedForParameter)
            /\ log[i].res.reply.code # NoReply
            /\ log[i].res.session = log[i].pre
            /\ log[i].res.spawn = {} /\ log[i].res.calls = <<>> /\ ~log[i].res.arm

\* MODE Stream and MODE Block each handled in a session that has a rename
\* staged and a data channel armed, and their replies written
C18_Witness ==
    \E i, j \in DOMAIN log :
        /\ log[i].cmd = "MODE" /\ log[i].arg = "Stream"
        /\ log[j].cmd = "MODE" /\ log[j].arg # "Stream"
        /\ (log[i].pre.rename_from # None \/ log[i].pre.data_cmd_tx # None)
        /\ \E k \in DOMAIN written :
              written[k].n = j /\ written[k].code = CommandNotImplementedForParameter

\* C19 (as claimed): when the store of a STOU meets AlreadyExists, a second
\* store under a newly generated name follows, and only then 550; no STOU
\* makes more than two stores.
C19_StouRetryAsClaimed ==
    \A k \in DOMAIN dtasks :
        (dtasks[k].done /\ dtasks[k].cmds # <<>> /\ Handled(dtasks[k].cmds[1].n, {"STOU"})) =>
            /\ Len(dtasks[k].puts) <= 2
            /\ dtasks[k].puts[1].outcome = "AlreadyExists" =>
                  /\ Len(dtasks[k].puts) = 2
                  /\ dtasks[k].puts[2].path # dtasks[k].puts[1].path

\* the PlaintextControlChannel events posted to the bus so far: those still
\* on it and those the loop has consumed
PlaintextPosted ==
    Len(SelectSeq(bus, LAMBDA m : m.type = "PlaintextControlChannel")) + Len(downgrades)

\* C20 (as claimed): over a session at most one PlaintextControlChannel
\* event is posted to the bus, and the loop performs the downgrade at most
\* once.
C20_SingleDowngradeAsClaimed ==
    /\ PlaintextPosted <= 1
    /\ Len(downgrades) <= 1

\* ABOR i was handled while the transfer of data command j was in flight:
\* j was accepted on the channel whose abort sender ABOR i took
AborRaces(i, j) ==
    /\ log[i].cmd = "ABOR" /\ log[i].pre.data_abort_tx # None
    /\ j < i
    /\ log[j].cmd \in {"STOR", "STOU"}
    /\ log[j].res.reply.code = FileStatusOkay
    /\ log[j].pre.data_cmd_tx = log[i].pre.data_abort_tx

\* C21 (as claimed): when an ABOR meets a transfer in flight, the client is
\* told either that the transfer completed or that it was aborted, not both.
C21_OneOutcomeAsClaimed ==
    \A i, j \in DOMAIN log :
        AborRaces(i, j) =>
            ~ ( /\ \E k \in DOMAIN written :
                      written[k].n = j /\ written[k].code = ClosingDataConnection
                /\ \E k \in DOMAIN written : written[k].n = i )

\* C23 (as claimed): when a command with a synchronous reply is handled
\* after a SIZE, the reply to the SIZE is written before its reply.
C23_SizeReplyFirstAsClaimed ==
    \A i, j \in DOMAIN log :
        (i < j /\ log[i].cmd = "SIZE" /\ log[j].cmd \in {"PBSZ", "MODE", "FEAT"}) =>
            \A k \in DOMAIN written :
                written[k].n = j => \E h \in 1..(k - 1) : written[h].n = i

\* C24 (as claimed): a port is reserved in the switchboard only with a 227
\* for it posted to the session that asked.
C24_ReservedThenPostedAsClaimed ==
    switchboard # None =>
        \A e \in switchboard[1].entries :
            \E i \in DOMAIN psessions[e.session].bus :
                /\ psessions[e.session].bus[i].code = EnteringPassiveMode
                /\ psessions[e.session].bus[i].port = e.to_port

\* C25 (as claimed): whatever connections and port requests come in, the
\* listener task is not terminated.
C25_ListenerSurvivesAsClaimed == phase \in {"build", "listen"}

\* C26 (as claimed): the range the switchboard reserves ports from is the
\* passive_ports range the listener tests data connections against.
C26_SameRangeAsClaimed ==
    (phase = "listen" /\ switchboard # None) => switchboard[1].port_range = passive_ports

\* C27: every RNTO leaves rename_from empty, whether the rename succeeded,
\* failed or was not attempted; an RNTO that follows another with no RNFR in
\* between finds nothing staged, calls no rename and gets the handler's
\* nothing-staged reply.
C27_RntoConsumes ==
    /\ \A i \in DOMAIN log :
          log[i].cmd = "RNTO" => log[i].res.session.rename_from = None
    /\ \A i, j \in DOMAIN log :
          ( /\ i < j /\ log[i].cmd = "RNTO" /\ log[j].cmd = "RNTO"
            /\ \A k \in (i + 1)..(j - 1) : log[k].cmd # "RNFR" )
          => /\ log[j].pre.rename_from = None
             /\ log[j].res.calls = <<>>
             /\ log[j].res.reply.code = TransientFileError
    /\ Len(renameCalls) <= Cardinality({i \in DOMAIN log : log[i].cmd = "RNFR"})

\* RNFR, an RNTO whose rename failed with 550, and the RNTO repeated
C27_Witness ==
    \E i, j \in DOMAIN log :
        /\ i < j
        /\ log[i].cmd = "RNTO" /\ log[i].res.reply.code = FileError
        /\ log[j].cmd = "RNTO" /\ log[j].res.reply.code = TransientFileError
        /\ Len(renameCalls) = 1
        /\ \E k \in DOMAIN written : written[k].n = j

\* C28 (as claimed): the task of a SIZE subtracts start_pos only from a
\* length that is at least start_pos.
C28_NoUnderflowAsClaimed ==
    \A t \in tasks :
        t.kind = "size" => \A len \in ReportedLen : t.start_pos <= len

(***************************************************************************)
(* The session guard.  Every handler above takes and releases the guard    *)
(* within its step, except Rnto::handle, which is suspended at             *)
(* storage.rename(..).await with the guard alive; here that handler is     *)
(* split at the await.  While it is suspended pc is "rnto_await" and reply *)
(* remembers the call in flight.                                           *)
(***************************************************************************)
\* Rnto::handle up to the await: lock, take rename_from, join the target
RntoLock ==
    \E p \in PathArgs :
        IF session.rename_from = None
        THEN OnCommand("RNTO", p, Rnto_handle(session, ncmd + 1, p, TRUE))
        ELSE /\ pc = "select"
             /\ ncmd < MaxCmds
             /\ ncmd' = ncmd + 1
             /\ session' = [session EXCEPT !.rename_from = None]
             /\ pc' = "rnto_await"
             /\ reply' = [code |-> NoReply,
                          text |-> <<session.rename_from[1], Join(session.cwd, p)>>,
                          n |-> ncmd + 1, cmd |-> "RNTO", arg |-> p]
             /\ UNCHANGED <<tasks, bus, dtasks, written, renameCalls, downgrades,
                            config, log>>
             /\ UNCHANGED pvars

\* storage.rename returns; the handler builds its reply and drops the guard
RenameReturns ==
    /\ pc = "rnto_await"
    /\ \E ok \in BOOLEAN :
          LET pre == [session EXCEPT !.rename_from = <<reply.text[1]>>]
              res == Rnto_handle(pre, reply.n, reply.arg, ok)
          IN  /\ session' = res.session
              /\ renameCalls' = renameCalls \o res.calls
              /\ reply' = [code |-> res.reply.code, text |-> res.reply.text,
                           n |-> reply.n, cmd |-> "RNTO"]
              /\ log' = Append(log, [cmd |-> "RNTO", arg |-> reply.arg,
                                     pre |-> pre, res |-> res])
    /\ pc' = "write"
    /\ UNCHANGED <<ncmd, tasks, bus, dtasks, written, downgrades, config>>
    /\ UNCHANGED pvars

GuardNext ==
    \/ CmdRnfr \/ RntoLock \/ RenameReturns \/ CmdSize
    \/ RunTask \/ OnEvent \/ WriteReply

GuardSpec == Init /\ [][GuardNext]_vars

\* a handler is suspended inside the session's critical section
GuardHeld == pc = "rnto_await"

\* a storage backend call has been started and has not returned
StorageCallInFlight ==
    \/ pc = "rnto_await"
    \/ \E t \in tasks : t.kind = "size"

\* C22 (as claimed): while a storage backend call is in flight, no handler
\* holds the session guard.
C22_NoStorageCallUnderGuardAsClaimed == StorageCallInFlight => ~GuardHeld

====
